---- MODULE Spec2Model ----
(***************************************************************************)
(* The rewards/strikes tracker: the day/strike/points state machine of the *)
(* two front-ends, src/main.py (web, Flask handlers over the module-level  *)
(* dict `data`) and src/utils.py (desktop, class RewardsApp), with the     *)
(* storage file data.json and the backup files the desktop build makes.    *)
(*                                                                         *)
(* One behaviour is the life of one front-end (variable fe, fixed by Init) *)
(* over its own working directory.  Each action is one handler run to      *)
(* completion, or a stop and relaunch of the process.                      *)
(*                                                                         *)
(* A Day is [id, strikes, awarded]: `awarded` is the desktop's             *)
(* "point_awarded" key (absent reads as False through .get); the web       *)
(* front-end never writes it.  A strike is the index of its rule in RULES  *)
(* (the web stores the rule text, the desktop the index and the text);     *)
(* the desktop's "date" and "time" stamps are written once and never read  *)
(* by any operation, and are left out.  Storage writes succeed.            *)
(***************************************************************************)
EXTENDS Integers, Sequences, FiniteSets, TLC

VARIABLES
    fe,       \* "web" (src/main.py) or "desktop" (src/utils.py); "both" when the two
              \* are run side by side, the web front-end in the variables below and
              \* the desktop front-end in twin
    points,   \* data["points"]
    days,     \* data["days"]
    cur,      \* desktop: position in days of the Day self.current_day refers to; web: 0
    file,     \* content of data.json
    baks,     \* the *.bak files: a set of [kind, t, content], one per file name
    now,      \* the wall clock, in seconds
    met,      \* history: the contents of data.json that a launch could not parse
    awards,   \* history: per Day of days, the points end_day has added for it
    twin,     \* fe = "both": the desktop's self.data and self.current_day, [points,
              \* days, cur], given every operation the web front-end is given
    net,      \* history: the manual adjustments made less the costs redeemed, since the
              \* start or the last reset
    last      \* history: the operation that ran last, its argument and outcome, the
              \* state (was) and data.json (disk) it started from, and the steps it took

vars == <<fe, points, days, cur, file, baks, now, twin, met, awards, net, last>>

----------------------------------------------------------------------------
(* Bounds of the exploration. *)

MaxDays == 3        \* Day records in memory and in backup snapshots together
MaxStrikes == 4     \* strikes in memory and in backup snapshots together
MaxPoints == 10     \* points in memory and in backup snapshots together
MaxDebt == 1        \* points never go below -MaxDebt (web manual adjust)
MaxClock == 1       \* the clock runs 0..MaxClock
PairMaxDays == 11   \* Day records of each front-end when the two run side by side
PairMaxStrikes == 5 \* strikes given when the two run side by side

(* Program constants. *)

NumRules == 8       \* len(RULES)
StrikeCap == 3      \* the "3" of end_day and add_strike_to_current
ToyCost == 5
HockeyCost == 10

(* Inputs. *)

RuleInputs == {0, NumRules}              \* a rule of RULES, and one outside of it
AudioInputs == BOOLEAN                   \* whether the rule's audio file exists
RewardInputs == {"toy", "hockey_game", "other"}
DeltaInputs == {-1, 1, 5}                \* points_change of /manual_point
CorruptBytes == {"", "garbage"}          \* an empty file, an unparsable one

----------------------------------------------------------------------------
(* Storage. *)

Default == [points |-> 0, days |-> <<>>]

Absent == [kind |-> "absent", bytes |-> "", points |-> 0, days |-> <<>>]

Bytes(b) == [kind |-> "bytes", bytes |-> b, points |-> 0, days |-> <<>>]

\* mutant: the day written without its strikes
JsonDay_NoStrikes(day) ==
    IF day.awarded THEN [id |-> day.id, strikes |-> <<>>, point_awarded |-> TRUE]
    ELSE [id |-> day.id, strikes |-> <<>>]

\* json.dump of a day: the JSON object has the keys the dict has; "point_awarded" is a
\* key only of the days end_day has awarded
JsonDay(day) ==
    IF day.awarded THEN [id |-> day.id, strikes |-> day.strikes, point_awarded |-> TRUE]
    ELSE [id |-> day.id, strikes |-> day.strikes]

\* a day read back from its JSON object; .get("point_awarded", False) reads its flag
FromJsonDay(o) ==
    [id |-> o.id, strikes |-> o.strikes,
     awarded |-> IF "point_awarded" \in DOMAIN o THEN o.point_awarded ELSE FALSE]

\* json.dump(data, f): the text of data, a JSON object with points and days
Dump(data) ==
    [kind |-> "json", bytes |-> "", points |-> data.points,
     days |-> [i \in 1..Len(data.days) |-> JsonDay(data.days[i])]]

\* whether json.load / json.loads accepts the text
Parses(f) == f.kind = "json"

\* json.loads(text) of a text that parses
Loads(f) == [points |-> f.points, days |-> [i \in 1..Len(f.days) |-> FromJsonDay(f.days[i])]]

\* shutil.move(DATA_FILE, name): the file takes the name, replacing a file of that name
Move(bk, kind, t, f) ==
    {b \in bk : ~(b.kind = kind /\ b.t = t)} \cup {[kind |-> kind, t |-> t, content |-> f]}

NewDay(id) == [id |-> id, strikes |-> <<>>, awarded |-> FALSE]

\* the record of an operation that starts in the present state.  Its steps are, in the
\* order the handler takes them: "mutate" (a change of data), "save" (save_data),
\* "log" (one line appended to logs.txt), "move" (data.json moved to a backup name),
\* "raise" (an exception leaves the handler)
Did(op, arg, ok, steps) ==
    [op |-> op, arg |-> arg, ok |-> ok, steps |-> steps,
     was |-> [points |-> points, days |-> days], disk |-> file]

\* RULES[rule_index] / RULES.index(rule): whether the rule is one of the catalog
InRules(r) == r \in 0..(NumRules - 1)

RECURSIVE SumDays(_)
\* Day records held by a set of backups
SumDays(bk) ==
    IF bk = {} THEN 0
    ELSE LET b == CHOOSE x \in bk : TRUE
         IN Len(b.content.days) + SumDays(bk \ {b})

RECURSIVE StrikesOf(_)
\* strikes recorded in a list of days
StrikesOf(ds) ==
    IF ds = <<>> THEN 0 ELSE Len(Head(ds).strikes) + StrikesOf(Tail(ds))

RECURSIVE SumStrikes(_)
SumStrikes(bk) ==
    IF bk = {} THEN 0
    ELSE LET b == CHOOSE x \in bk : TRUE
         IN StrikesOf(b.content.days) + SumStrikes(bk \ {b})

RECURSIVE SumPoints(_)
\* points held by the snapshots of a set of backups
SumPoints(bk) ==
    IF bk = {} THEN 0
    ELSE LET b == CHOOSE x \in bk : TRUE
         IN b.content.points + SumPoints(bk \ {b})

----------------------------------------------------------------------------
(* The desktop front-end's handlers as functions of st = [points, days, cur]. *)

\* mutant: the strike limit compared with >
DeskFull_OverCap(day) == Len(day.strikes) > StrikeCap

\* add_strike_to_current: the strike limit
DeskFull(day) == Len(day.strikes) >= StrikeCap

\* mutant: the next id taken from the length, without the + 1
DeskNextId_NoPlusOne(ds) == Len(ds)

\* _start_new_day: next_id = len(days) + 1
DeskNextId(ds) == Len(ds) + 1

\* _start_new_day: the days with the new day appended (it becomes current_day, and is saved)
StartNewDay(ds) == Append(ds, NewDay(DeskNextId(ds)))

\* _start_new_day: the steps it takes
StartNewDaySteps == <<"mutate", "save", "log">>

\* mutant: self.current_day stays the first day
DeskCur_First(ds) == 1

\* self.current_day = new_day, self.current_day = self.data["days"][-1]
DeskCur(ds) == Len(ds)

\* mutant: the award made whatever the strikes
DeskAwards_AnyStrikes(day) == ~day.awarded

\* end_day: strikes < 3 and not point_awarded
DeskAwards(day) == Len(day.strikes) < StrikeCap /\ ~day.awarded

\* mutant: the redemption made whatever the points
DeskCanRedeem_Always(pts, cost) == TRUE

\* redeem_points: pts >= cost
DeskCanRedeem(pts, cost) == pts >= cost

\* add_strike_to_current(rule_index): the strike goes to current_day unless the day is
\* full or the index is past the catalog
DeskStrikeOn(st, r) ==
    IF ~DeskFull(st.days[st.cur]) /\ InRules(r)
    THEN [st EXCEPT !.days[st.cur].strikes = Append(@, r)]
    ELSE st

\* end_day: the award, then _start_new_day
DeskEndDayOn(st) ==
    LET won == DeskAwards(st.days[st.cur])
        ds1 == IF won THEN [st.days EXCEPT ![st.cur].awarded = TRUE] ELSE st.days
        ds2 == StartNewDay(ds1)
    IN [points |-> IF won THEN st.points + 1 ELSE st.points,
        days |-> ds2,
        cur |-> DeskCur(ds2)]

\* redeem_points(cost, reward)
DeskRedeemOn(st, cost) ==
    IF DeskCanRedeem(st.points, cost) THEN [st EXCEPT !.points = @ - cost] ELSE st

----------------------------------------------------------------------------
(* The web front-end, src/main.py. *)

\* the bounds in force: those of the side-by-side run when fe = "both"
DayBudget == IF fe = "both" THEN PairMaxDays ELSE MaxDays

StrikeBudget == IF fe = "both" THEN PairMaxStrikes ELSE MaxStrikes

\* mutant: data["days"][0], the first day instead of the last
LastIdx_First(ds) == 1

\* mutant: data["days"][-2], the day before the last
LastIdx_Previous(ds) == IF Len(ds) > 1 THEN Len(ds) - 1 ELSE Len(ds)

\* data["days"][-1]
LastIdx(ds) == Len(ds)

\* current_day(): an empty list gets Day 1 first
Lazy(ds) == IF ds = <<>> THEN <<NewDay(1)>> ELSE ds

LazyAwards(ds, aw) == IF ds = <<>> THEN <<0>> ELSE aw

\* current_day(): the step it takes
LazySteps(ds) == IF ds = <<>> THEN <<"mutate">> ELSE <<>>

\* mutant: the cap compared with <=
WebAwards_AtMostCap(day) == Len(day.strikes) <= StrikeCap

\* end_day: strikes < 3
WebAwards(day) == Len(day.strikes) < StrikeCap

\* end_day: new_id = day["id"] + 1
WebNewId(day) == day.id + 1

\* exchange: the cost deducted for the reward, 0 when the exchange fails
WebCharge(reward, pts) ==
    IF reward = "toy" /\ pts >= ToyCost THEN ToyCost
    ELSE IF reward = "hockey_game" /\ pts >= HockeyCost THEN HockeyCost
    ELSE 0

\* the cost a reward name stands for (0: not a reward of the menu)
CostOf(reward) ==
    IF reward = "toy" THEN ToyCost ELSE IF reward = "hockey_game" THEN HockeyCost ELSE 0

\* mutant: the state of data.json is not taken over
WebLoad_AlwaysDefault(f) ==
    IF f.kind = "absent" THEN [data |-> Default, file |-> Dump(Default)]
    ELSE [data |-> Default, file |-> f]

\* module-level initialization: the state loaded from data.json, and the file after it
WebLoad(f) ==
    IF f.kind = "absent" THEN [data |-> Default, file |-> Dump(Default)]
    ELSE IF Parses(f) THEN [data |-> Loads(f), file |-> f]
    ELSE [data |-> Default, file |-> f]

\* GET /
WebIndex ==
    /\ fe = "web"
    /\ days = <<>> => SumDays(baks) < MaxDays
    /\ days' = Lazy(days)
    /\ awards' = LazyAwards(days, awards)
    /\ last' = Did("index", 0, TRUE, LazySteps(days))
    /\ UNCHANGED <<fe, twin, points, cur, file, baks, now, met, net>>

\* POST /strike: the strike is appended, saved and logged, and then RULES.index(rule)
\* raises ValueError for a rule that is not in RULES
WebAddStrike(r) ==
    LET ds == Lazy(days)
        n == LastIdx(ds)
        ds2 == [ds EXCEPT ![n].strikes = Append(@, r)]
    IN /\ fe \in {"web", "both"}
       /\ StrikesOf(days) + SumStrikes(baks) < StrikeBudget
       /\ days = <<>> => SumDays(baks) < DayBudget
       /\ twin' = IF fe = "both" THEN DeskStrikeOn(twin, r) ELSE twin
       /\ days' = ds2
       /\ file' = Dump([points |-> points, days |-> ds2])
       /\ awards' = LazyAwards(days, awards)
       /\ last' = Did("strike", r, TRUE,
                       LazySteps(days) \o <<"mutate", "save", "log">>
                           \o (IF InRules(r) THEN <<>> ELSE <<"raise">>))
       /\ UNCHANGED <<fe, points, cur, baks, now, met, net>>

\* POST /end_day
WebEndDay ==
    LET ds == Lazy(days)
        n == LastIdx(ds)
        day == ds[n]
        won == WebAwards(day)
        p2 == IF won THEN points + 1 ELSE points
        ds2 == Append(ds, NewDay(WebNewId(day)))
    IN /\ fe \in {"web", "both"}
       /\ Len(ds) + SumDays(baks) < DayBudget
       /\ p2 <= MaxPoints
       /\ twin' = IF fe = "both" THEN DeskEndDayOn(twin) ELSE twin
       /\ points' = p2
       /\ days' = ds2
       /\ file' = Dump([points |-> p2, days |-> ds2])
       /\ awards' = Append([LazyAwards(days, awards) EXCEPT ![n] = @ + (IF won THEN 1 ELSE 0)], 0)
       /\ last' = Did("endDay", 0, won,
                       LazySteps(days) \o (IF won THEN <<"mutate">> ELSE <<>>)
                           \o <<"log", "mutate", "save">>)
       /\ UNCHANGED <<fe, cur, baks, now, met, net>>

\* POST /exchange: the state is saved, then the page is rendered through current_day()
WebExchange(reward) ==
    LET c == WebCharge(reward, points)
        p2 == points - c
    IN /\ fe \in {"web", "both"}
       /\ days = <<>> => SumDays(baks) < DayBudget
       /\ twin' = IF fe = "both" THEN DeskRedeemOn(twin, CostOf(reward)) ELSE twin
       /\ points' = p2
       /\ file' = Dump([points |-> p2, days |-> days])
       /\ days' = Lazy(days)
       /\ awards' = LazyAwards(days, awards)
       /\ last' = Did("redeem", CostOf(reward), c > 0,
                       (IF c > 0 THEN <<"mutate">> ELSE <<>>) \o <<"log", "save">>
                           \o LazySteps(days))
       /\ net' = net - c
       /\ UNCHANGED <<fe, cur, baks, now, met>>

\* POST /system_access: the right PIN renders the page through current_day()
WebSystemAccess(pinOk) ==
    /\ fe = "web"
    /\ (pinOk /\ days = <<>>) => SumDays(baks) < MaxDays
    /\ days' = IF pinOk THEN Lazy(days) ELSE days
    /\ awards' = IF pinOk THEN LazyAwards(days, awards) ELSE awards
    /\ last' = Did("pin", 0, pinOk, IF pinOk THEN LazySteps(days) ELSE <<"log">>)
    /\ UNCHANGED <<fe, twin, points, cur, file, baks, now, met, net>>

\* POST /manual_point
WebManualPoint(change) ==
    LET p2 == points + change
    IN /\ fe = "web"
       /\ p2 <= MaxPoints
       /\ p2 >= -MaxDebt
       /\ points' = p2
       /\ file' = Dump([points |-> p2, days |-> days])
       /\ last' = Did("adjust", change, TRUE, <<"mutate", "save", "log">>)
       /\ net' = net + change
       /\ UNCHANGED <<fe, twin, days, cur, baks, now, met, awards>>

\* POST /reset_system
WebReset ==
    /\ fe = "web"
    /\ points' = Default.points
    /\ days' = Default.days
    /\ file' = Dump(Default)
    /\ awards' = <<>>
    /\ last' = Did("reset", 0, TRUE, <<"mutate", "save", "log">>)
    /\ net' = 0
    /\ UNCHANGED <<fe, twin, cur, baks, now, met>>

----------------------------------------------------------------------------
(* The desktop front-end, src/utils.py. *)

\* safe_load_data(): the state loaded, and the file and the backups after it; a file
\* that does not parse is moved to data_corrupt_<now>.bak, which may fail (moved = FALSE)
SafeLoad(f, bk, t, moved) ==
    IF f.kind = "absent" THEN [data |-> Default, file |-> f, baks |-> bk]
    ELSE IF Parses(f) THEN [data |-> Loads(f), file |-> f, baks |-> bk]
    ELSE IF moved THEN [data |-> Default, file |-> Absent, baks |-> Move(bk, "corrupt", t, f)]
    ELSE [data |-> Default, file |-> f, baks |-> bk]

\* self.data and self.current_day
Desk == [points |-> points, days |-> days, cur |-> cur]

\* mutant: Remove Point allowed at 0
DeskCanRemove_AtZero(pts) == pts >= 0

\* manual_remove_point: points > 0
DeskCanRemove(pts) == pts > 0

\* add_strike_to_current(rule_index): a full day rejects the strike; RULES[rule_index]
\* raises IndexError for an index past the catalog; play_rule_audio logs a missing file
DeskAddStrike(r, audio) ==
    LET full == DeskFull(days[cur])
        done == ~full /\ InRules(r)
        ds2 == DeskStrikeOn(Desk, r).days
    IN /\ fe = "desktop"
       /\ done => StrikesOf(days) + SumStrikes(baks) < MaxStrikes
       /\ ~done => audio
       /\ days' = ds2
       /\ file' = IF done THEN Dump([points |-> points, days |-> ds2]) ELSE file
       /\ last' = Did("strike", r, done,
                       IF full THEN <<"log">>
                       ELSE IF ~InRules(r) THEN <<"raise">>
                       ELSE <<"mutate", "save", "log">>
                                \o (IF audio THEN <<>> ELSE <<"log">>))
       /\ UNCHANGED <<fe, twin, points, cur, baks, now, met, awards, net>>

\* end_day
DeskEndDay ==
    LET won == DeskAwards(days[cur])
        st == DeskEndDayOn(Desk)
        p2 == st.points
        ds2 == st.days
    IN /\ fe = "desktop"
       /\ Len(days) + SumDays(baks) < MaxDays
       /\ p2 + SumPoints(baks) <= MaxPoints
       /\ points' = p2
       /\ days' = ds2
       /\ cur' = st.cur
       /\ file' = Dump([points |-> p2, days |-> ds2])
       /\ awards' = Append([awards EXCEPT ![cur] = @ + (IF won THEN 1 ELSE 0)], 0)
       /\ last' = Did("endDay", 0, won,
                       (IF won THEN <<"mutate">> ELSE <<>>) \o <<"log", "save">>
                           \o StartNewDaySteps)
       /\ UNCHANGED <<fe, twin, baks, now, met, net>>

\* redeem_points(cost, reward)
DeskRedeem(cost) ==
    LET can == DeskCanRedeem(points, cost)
        p2 == DeskRedeemOn(Desk, cost).points
    IN /\ fe = "desktop"
       /\ points' = p2
       /\ file' = IF can THEN Dump([points |-> p2, days |-> days]) ELSE file
       /\ last' = Did("redeem", cost, can,
                       IF can THEN <<"mutate", "save", "log">> ELSE <<"log">>)
       /\ net' = IF can THEN net - cost ELSE net
       /\ UNCHANGED <<fe, twin, days, cur, baks, now, met, awards>>

\* manual_add_point
DeskManualAdd ==
    /\ fe = "desktop"
    /\ points + SumPoints(baks) < MaxPoints
    /\ points' = points + 1
    /\ file' = Dump([points |-> points + 1, days |-> days])
    /\ last' = Did("adjust", 1, TRUE, <<"mutate", "save", "log">>)
    /\ net' = net + 1
    /\ UNCHANGED <<fe, twin, days, cur, baks, now, met, awards>>

\* manual_remove_point
DeskManualRemove ==
    LET can == DeskCanRemove(points)
        p2 == IF can THEN points - 1 ELSE points
    IN /\ fe = "desktop"
       /\ points' = p2
       /\ file' = IF can THEN Dump([points |-> p2, days |-> days]) ELSE file
       /\ last' = Did("adjust", -1, can,
                       IF can THEN <<"mutate", "save", "log">> ELSE <<>>)
       /\ net' = IF can THEN net - 1 ELSE net
       /\ UNCHANGED <<fe, twin, days, cur, baks, now, met, awards>>

\* reset_system: data.json is moved to data_reset_<now>.bak, which may fail
DeskReset(moved) ==
    LET bk2 == IF file.kind # "absent" /\ moved THEN Move(baks, "reset", now, file) ELSE baks
        ds2 == StartNewDay(Default.days)
    IN /\ fe = "desktop"
       /\ SumDays(bk2) < MaxDays
       /\ baks' = bk2
       /\ points' = Default.points
       /\ days' = ds2
       /\ cur' = DeskCur(ds2)
       /\ file' = Dump([points |-> Default.points, days |-> ds2])
       /\ awards' = <<0>>
       /\ last' = Did("reset", 0, moved,
                       (IF file.kind = "absent" THEN <<>>
                        ELSE IF moved THEN <<"move", "log">> ELSE <<"log">>)
                           \o <<"mutate", "save", "log">> \o StartNewDaySteps)
       /\ net' = 0
       /\ UNCHANGED <<fe, twin, now, met>>

----------------------------------------------------------------------------
(* Process start, and the environment. *)

\* the state a front-end starts in over data.json = f: the web's module-level
\* initialization; the desktop's RewardsApp.__init__, which starts Day 1 when the
\* loaded state has no day
Launch(f_e, f, bk, t, moved) ==
    IF f_e = "web"
    THEN LET r == WebLoad(f)
         IN [points |-> r.data.points, days |-> r.data.days, cur |-> 0,
             file |-> r.file, baks |-> bk]
    ELSE LET r == SafeLoad(f, bk, t, moved)
             ds == IF r.data.days = <<>> THEN StartNewDay(r.data.days) ELSE r.data.days
         IN [points |-> r.data.points, days |-> ds, cur |-> DeskCur(ds),
             file |-> IF r.data.days = <<>>
                      THEN Dump([points |-> r.data.points, days |-> ds])
                      ELSE r.file,
             baks |-> r.baks]

\* the award history of the days a launch keeps: those read back from the file
KeptAwards(f, ds, aw) ==
    [i \in 1..Len(ds) |-> IF Parses(f) /\ i <= Len(f.days) /\ i <= Len(aw) THEN aw[i] ELSE 0]

\* the process stops and is started again over the same directory
Restart ==
    \E moved \in BOOLEAN :
        LET st == Launch(fe, file, baks, now, moved)
        IN /\ points' = st.points
           /\ days' = st.days
           /\ cur' = st.cur
           /\ file' = st.file
           /\ baks' = st.baks
           /\ met' = IF file.kind = "bytes" THEN met \cup {file} ELSE met
           /\ awards' = KeptAwards(file, st.days, awards)
           /\ last' = Did("launch", 0, Parses(file), <<>>)
           /\ UNCHANGED <<fe, twin, now, net>>

\* a second passes.  The clock is read only to name backup files, so a second that
\* no backup file carries is the same as the next one: the clock stands until one does
Tick ==
    /\ now < MaxClock
    /\ \E b \in baks : b.t = now
    /\ now' = now + 1
    /\ UNCHANGED <<fe, twin, points, days, cur, file, baks, met, awards, last, net>>

\* the first launch of front-end f_e over a directory whose data.json is f
FirstLaunch(f_e, f, moved) ==
        LET st == Launch(f_e, f, {}, 0, moved)
        IN /\ fe = f_e
           /\ points = st.points
           /\ days = st.days
           /\ cur = st.cur
           /\ file = st.file
           /\ baks = st.baks
           /\ now = 0
           /\ twin = [points |-> 0, days |-> <<>>, cur |-> 0]
           /\ met = IF f.kind = "bytes" THEN {f} ELSE {}
           /\ awards = KeptAwards(f, st.days, <<>>)
           /\ net = 0
           /\ last = [op |-> "launch", arg |-> 0, ok |-> Parses(f), steps |-> <<>>,
                      was |-> Default, disk |-> f]

\* a fresh start: no data.json
Init == \E f_e \in {"web", "desktop"} : FirstLaunch(f_e, Absent, TRUE)

\* a start over a data.json that is empty or unparsable
InitCorrupt ==
    \E f_e \in {"web", "desktop"}, b \in CorruptBytes, moved \in BOOLEAN :
        FirstLaunch(f_e, Bytes(b), moved)

Next ==
    \/ WebIndex
    \/ \E r \in RuleInputs : WebAddStrike(r)
    \/ WebEndDay
    \/ \E reward \in RewardInputs : WebExchange(reward)
    \/ \E pinOk \in BOOLEAN : WebSystemAccess(pinOk)
    \/ \E change \in DeltaInputs : WebManualPoint(change)
    \/ WebReset
    \/ \E r \in RuleInputs, audio \in AudioInputs : DeskAddStrike(r, audio)
    \/ DeskEndDay
    \/ \E cost \in {ToyCost, HockeyCost} : DeskRedeem(cost)
    \/ DeskManualAdd
    \/ DeskManualRemove
    \/ \E moved \in BOOLEAN : DeskReset(moved)
    \/ Restart
    \/ Tick

Spec == Init /\ [][Next]_vars

\* a fresh start of both front-ends, each in a directory of its own
InitPair ==
    LET w == Launch("web", Absent, {}, 0, TRUE)
        d == Launch("desktop", Absent, {}, 0, TRUE)
    IN /\ fe = "both"
       /\ points = w.points
       /\ days = w.days
       /\ cur = w.cur
       /\ file = w.file
       /\ baks = w.baks
       /\ now = 0
       /\ twin = [points |-> d.points, days |-> d.days, cur |-> d.cur]
       /\ met = {}
       /\ awards = KeptAwards(Absent, w.days, <<>>)
       /\ net = 0
       /\ last = [op |-> "launch", arg |-> 0, ok |-> FALSE, steps |-> <<>>,
                  was |-> Default, disk |-> Absent]

\* the operations given to both: a strike for a rule of the catalog, end of day, and
\* the redemption of a reward of the menu
NextPair ==
    \/ \E r \in {x \in RuleInputs : InRules(x)} : WebAddStrike(r)
    \/ WebEndDay
    \/ \E reward \in {"toy", "hockey_game"} : WebExchange(reward)

SpecPair == InitPair /\ [][NextPair]_vars

SpecCorrupt == InitCorrupt /\ [][Next]_vars

----------------------------------------------------------------------------
(* Properties. *)

\* the Day an operation found current: the last of the days it started from, or the
\* Day 1 that the web front-end makes of an empty list
DayBefore ==
    IF last.was.days = <<>> THEN [id |-> 1, strikes |-> <<>>, awarded |-> FALSE]
    ELSE last.was.days[Len(last.was.days)]

\* C1: in both front-ends, endDay adds exactly 1 to points when the day it ends has
\* fewer than 3 strikes, and otherwise leaves points as they were
C1_EndDayAwardsUnderThree ==
    last.op = "endDay" =>
        points = last.was.points + (IF Len(DayBefore.strikes) < 3 THEN 1 ELSE 0)

\* C1 witness: a day ended on its third strike, without a point
C1_Witness ==
    /\ last.op = "endDay"
    /\ Len(DayBefore.strikes) = 3
    /\ points = last.was.points

\* C2: no Day is ever awarded more than one point, also when endDay runs twice in a
\* row; the desktop's point_awarded flag is set exactly on the Days that were awarded,
\* and no strike, endDay, redeem or adjustment clears it
C2_AtMostOnePointPerDay ==
    /\ Len(awards) = Len(days)
    /\ \A i \in 1..Len(days) :
        /\ awards[i] <= 1
        /\ days[i].awarded => awards[i] = 1
        /\ (fe = "desktop" /\ awards[i] = 1) => days[i].awarded
    /\ last.op \in {"strike", "endDay", "redeem", "adjust", "index", "pin"} =>
        \A i \in 1..Len(last.was.days) :
            last.was.days[i].awarded => (i <= Len(days) /\ days[i].awarded)

\* C2 witness: endDay twice in a row; Day 1 and Day 2 hold one point each
C2_Witness ==
    /\ last.op = "endDay"
    /\ Len(days) = 3
    /\ days[2].strikes = <<>>
    /\ awards = <<1, 1, 0>>
    /\ points = 2

\* C3: endDay makes days one longer, and the day it appends carries the id after the
\* one of the day it ended, has no strike and is not awarded
C3_EndDayAppendsOneDay ==
    last.op = "endDay" =>
        /\ Len(days) = Len(last.was.days) + 1
        /\ days[Len(days)].id = DayBefore.id + 1
        /\ days[Len(days)].strikes = <<>>
        /\ ~days[Len(days)].awarded

\* C4: redeem of Toy (5) or HockeyGame (10) takes the cost off points exactly when
\* points cover it, and otherwise leaves points alone; days are the same either way
C4_RedeemDeductsIffCovered ==
    (last.op = "redeem" /\ last.arg \in {5, 10}) =>
        /\ points = IF last.was.points >= last.arg
                    THEN last.was.points - last.arg
                    ELSE last.was.points
        /\ days = last.was.days

\* C5: reset leaves points = 0 and exactly one Day (id 1, no strike, not awarded), and
\* the content data.json had before the reset is the content of a backup file (stated
\* for the resets whose move of data.json, if they make one, did not fail)
C5_ResetFreshAndBackedUp ==
    (last.op = "reset" /\ last.ok) =>
        /\ points = 0
        /\ days = <<[id |-> 1, strikes |-> <<>>, awarded |-> FALSE]>>
        /\ last.disk.kind # "absent" => \E b \in baks : b.content = last.disk

\* C6: days is never empty, in memory and in data.json, and the desktop's current day
\* is the last one
C6_DaysNeverEmpty ==
    /\ days # <<>>
    /\ file.kind = "json" => file.days # <<>>
    /\ fe = "desktop" => cur = Len(days)

\* C7: the ids of days are 1, 2, ..., len(days), in this order
C7_IdsContiguousFromOne ==
    \A i \in 1..Len(days) : days[i].id = i

\* C7 witness: three days, the last one started by endDay
C7_Witness ==
    /\ last.op = "endDay"
    /\ Len(days) = 3
    /\ days[3].id = 3

\* C8, as claimed: addStrike (accepted or rejected), a failed redeem, currentDay, reset
\* and load leave points unchanged
C8_OnlyAwardRedeemAdjustChangePoints ==
    (\/ last.op \in {"strike", "index", "pin", "reset", "launch"}
     \/ (last.op = "redeem" /\ ~last.ok))
        => points = last.was.points

\* C8, amended: points change only by the award of endDay (+1), a redemption (-cost), a
\* manual adjustment (by its delta) and reset (to 0); addStrike, a failed redeem, a
\* refused Remove Point, currentDay and a relaunch leave points unchanged
C8_PointsChangeOnlyByAwardRedeemAdjustReset ==
    /\ (\/ last.op \in {"strike", "index", "pin", "launch"}
        \/ (last.op \in {"redeem", "adjust"} /\ ~last.ok))
            => points = last.was.points
    /\ last.op = "endDay" => points - last.was.points \in {0, 1}
    /\ (last.op = "redeem" /\ last.ok) => points = last.was.points - last.arg
    /\ (last.op = "adjust" /\ last.ok) => points = last.was.points + last.arg
    /\ last.op = "reset" => points = 0

\* C8 witness: a reset that found points above 0
C8_Witness ==
    /\ last.op = "reset"
    /\ last.was.points > 0
    /\ points = 0

\* C9: after every user action data.json holds the state that is in memory
C9_FileEqualsMemory ==
    last.op \in {"strike", "endDay", "redeem", "adjust", "reset", "index", "pin"} =>
        file = Dump([points |-> points, days |-> days])

\* C10: a launch over a data.json that is empty or unparsable starts from points 0 and
\* no day (the desktop then starts Day 1), and the bytes that data.json had are never
\* lost: from then on a backup file holds them (or, no backup made yet, data.json still)
C10_CorruptBytesKept ==
    /\ (last.op = "launch" /\ last.disk.kind = "bytes") =>
        /\ points = 0
        /\ days \in {<<>>, <<[id |-> 1, strikes |-> <<>>, awarded |-> FALSE]>>}
    /\ \A c \in met : file = c \/ \E b \in baks : b.content = c

RECURSIVE CountOf(_, _)
\* how many of the steps are x
CountOf(steps, x) ==
    IF steps = <<>> THEN 0
    ELSE (IF Head(steps) = x THEN 1 ELSE 0) + CountOf(Tail(steps), x)

\* the operation that ran last left points, days and data.json as they were
NothingChanged ==
    /\ points = last.was.points
    /\ days = last.was.days
    /\ file = last.disk

\* C11: every operation that mutates the state (addStrike, endDay, redeem, manual
\* adjust, reset, lazy creation of Day 1), every failed PIN attempt and every rejected
\* strike or redeem appends exactly one line to the log, and no operation appends more
\* than one line
C11_OneLogLinePerOperation ==
    /\ (\/ CountOf(last.steps, "mutate") > 0
        \/ (last.op \in {"pin", "strike", "redeem"} /\ ~last.ok))
            => CountOf(last.steps, "log") = 1
    /\ CountOf(last.steps, "log") <= 1

\* C12: in the desktop front-end a strike on a day that has 3 strikes changes neither
\* points nor days nor data.json and writes one log line, and no Day ever has more than
\* 3 strikes
C12_DesktopStrikeCap ==
    fe = "desktop" =>
        /\ \A i \in 1..Len(days) : Len(days[i].strikes) <= 3
        /\ (last.op = "strike" /\ Len(DayBefore.strikes) >= 3) =>
            /\ ~last.ok
            /\ NothingChanged
            /\ last.steps = <<"log">>

\* C12 witness: a strike refused by the desktop on a day of 3 strikes
C12_Witness ==
    /\ fe = "desktop"
    /\ last.op = "strike"
    /\ ~last.ok
    /\ Len(days[Len(days)].strikes) = 3
    /\ last.steps = <<"log">>

\* C13: a strike for a rule outside the catalog of 8, and a redeem of a reward that is
\* neither toy nor hockey_game, change neither points nor days nor data.json, write one
\* log line and raise nothing
C13_InvalidSelectionIsLoggedNoOp ==
    (\/ (last.op = "strike" /\ last.arg \notin 0..7)
     \/ (last.op = "redeem" /\ last.arg \notin {5, 10}))
        => /\ NothingChanged
           /\ CountOf(last.steps, "log") = 1
           /\ CountOf(last.steps, "raise") = 0

\* C14: a backup file, once made, stays with the content it was made with
C14_BackupsNeverOverwritten ==
    [][\A b \in baks : b \in baks']_vars

\* C15: what save writes, load reads back: the same points, the same days with the same
\* ids and the same strikes in the same order; a relaunch starts from exactly the state
\* that data.json holds
C15_SaveLoadRoundTrip ==
    /\ Loads(Dump([points |-> points, days |-> days])) = [points |-> points, days |-> days]
    /\ (last.op = "launch" /\ Parses(last.disk)) =>
        /\ points = Loads(last.disk).points
        /\ Len(days) = Len(last.disk.days)
        /\ \A i \in 1..Len(days) :
            /\ days[i].id = last.disk.days[i].id
            /\ days[i].strikes = last.disk.days[i].strikes

\* C15 witness: a relaunch over a data.json with points, two days and a strike
C15_Witness ==
    /\ last.op = "launch"
    /\ Parses(last.disk)
    /\ points > 0
    /\ Len(days) = 2
    /\ Len(days[1].strikes) > 0
    /\ file = Dump([points |-> points, days |-> days])

\* C16: addStrike, endDay, redeem and manual adjust (and the page requests) leave every
\* Day but the last as it was; only endDay makes the last Day a closed one, and it
\* keeps that Day's id and strikes
C16_ClosedDaysImmutable ==
    last.op \in {"strike", "endDay", "redeem", "adjust", "index", "pin"} =>
        /\ Len(days) >= Len(last.was.days)
        /\ \A i \in 1..(Len(last.was.days) - 1) : days[i] = last.was.days[i]
        /\ (last.was.days # <<>> /\ Len(days) > Len(last.was.days)) => last.op = "endDay"
        /\ last.op = "endDay" =>
            /\ days[Len(days) - 1].id = DayBefore.id
            /\ days[Len(days) - 1].strikes = DayBefore.strikes

\* C16 witness: a strike recorded on Day 2 while the closed Day 1 keeps its strike
C16_Witness ==
    /\ last.op = "strike"
    /\ last.ok
    /\ Len(days) = 2
    /\ Len(days[1].strikes) = 1
    /\ days[1] = last.was.days[1]
    /\ Len(days[2].strikes) = Len(last.was.days[2].strikes) + 1

\* C17: in the desktop front-end points never go below 0: a redeem is made only when
\* points cover the cost, and Remove Point takes exactly 1, or at points = 0 changes
\* nothing at all
C17_DesktopPointsNonNegative ==
    fe = "desktop" =>
        /\ points >= 0
        /\ (last.op = "redeem" /\ last.ok) => last.was.points >= last.arg
        /\ (last.op = "adjust" /\ last.arg = -1) =>
            IF last.was.points > 0
            THEN last.ok /\ points = last.was.points - 1
            ELSE ~last.ok /\ NothingChanged /\ last.steps = <<>>

\* C17 witness: Remove Point refused at points = 0
C17_Witness ==
    /\ fe = "desktop"
    /\ last.op = "adjust"
    /\ last.arg = -1
    /\ ~last.ok
    /\ points = 0

\* the position in steps of the first x, 0 when there is none
FirstPos(steps, x) ==
    IF \E i \in 1..Len(steps) : steps[i] = x
    THEN CHOOSE i \in 1..Len(steps) : steps[i] = x /\ \A j \in 1..(i - 1) : steps[j] # x
    ELSE 0

\* C18: an operation that mutates the state and logs it saves the state before it
\* appends its log line
C18_PersistBeforeLog ==
    (CountOf(last.steps, "mutate") > 0 /\ CountOf(last.steps, "log") > 0) =>
        /\ FirstPos(last.steps, "save") > 0
        /\ FirstPos(last.steps, "save") < FirstPos(last.steps, "log")

\* C19: the desktop's current day is the last element of days, also after a reset, and
\* an accepted strike is part of days and of the state saved to data.json
C19_CurrentDayIsLastDay ==
    fe = "desktop" =>
        /\ cur = Len(days)
        /\ (last.op = "strike" /\ last.ok) =>
            /\ days[Len(days)].strikes = Append(DayBefore.strikes, last.arg)
            /\ file = Dump([points |-> points, days |-> days])
        /\ (last.op = "endDay" /\ last.ok) =>
            /\ days[Len(days) - 1].awarded
            /\ file = Dump([points |-> points, days |-> days])

\* C19 witness: after a reset that made a backup, a strike lands in the new Day 1
C19_Witness ==
    /\ fe = "desktop"
    /\ last.op = "strike"
    /\ last.ok
    /\ \E b \in baks : b.kind = "reset"
    /\ Len(days) = 1
    /\ Len(days[1].strikes) = 1
    /\ Len(file.days[1].strikes) = 1

RECURSIVE ClosedUnderThree(_)
\* how many of the days but the last have fewer than 3 strikes
ClosedUnderThree(ds) ==
    IF Len(ds) <= 1 THEN 0
    ELSE (IF Len(Head(ds).strikes) < 3 THEN 1 ELSE 0) + ClosedUnderThree(Tail(ds))

RECURSIVE FlaggedDays(_)
\* how many of the days carry point_awarded
FlaggedDays(ds) ==
    IF ds = <<>> THEN 0 ELSE (IF Head(ds).awarded THEN 1 ELSE 0) + FlaggedDays(Tail(ds))

\* C20: points are the closed days that ended with fewer than 3 strikes, plus the
\* manual adjustments, less the costs redeemed, all since the start or the last reset;
\* in the desktop front-end the closed days that count are those with point_awarded
C20_PointsAccounting ==
    /\ points = ClosedUnderThree(days) + net
    /\ fe = "desktop" => FlaggedDays(days) = ClosedUnderThree(days)

\* C20 witness: a day closed with a point, a day closed on 3 strikes without one,
\* adjustments of +5 and -1, and a toy redeemed from the 5 points
C20_Witness ==
    /\ last.op = "redeem"
    /\ last.ok
    /\ Len(days) = 3
    /\ ClosedUnderThree(days) = 1
    /\ net = -1
    /\ points = 0

\* the smaller of two numbers
Min(a, b) == IF a < b THEN a ELSE b

\* C21: whatever strikes (for rules of the catalog), ends of day and redemptions the two
\* front-ends are both given from a fresh start, they hold the same points and the same
\* day ids in the same order (the web's Day 1 counted before it is made), and each day
\* has the same number of strikes once the web's count is capped at 3
C21_FrontEndsAgree ==
    fe = "both" =>
        /\ points = twin.points
        /\ Len(Lazy(days)) = Len(twin.days)
        /\ \A i \in 1..Len(twin.days) :
            /\ Lazy(days)[i].id = twin.days[i].id
            /\ Min(Len(Lazy(days)[i].strikes), 3) = Len(twin.days[i].strikes)

\* C21 witness: a toy redeemed in both front-ends after a day on which the web recorded
\* 4 strikes and the desktop 3
C21_Witness ==
    /\ fe = "both"
    /\ last.op = "redeem"
    /\ last.ok
    /\ last.arg = 5
    /\ twin.points = 0
    /\ \E i \in 1..Len(days) :
        Len(days[i].strikes) = 4 /\ Len(twin.days[i].strikes) = 3

====
